---- MODULE Spec2Model ----
(***************************************************************************)
(* The wall-clock sampling engine of src/src/wallClock.cpp: the timer      *)
(* thread (timerLoop, walkStack), the SIGVTALRM handler (signalHandler)    *)
(* running on the sampled threads, and the start/stop lifecycle.           *)
(*                                                                         *)
(* Every access to one of the five global atomics is one step, so that all *)
(* interleavings of the timer thread and the handlers are explored.  A     *)
(* signal sent by walkStack stays pending on its thread for as long as the *)
(* scheduler likes; SIGVTALRM is blocked while its handler runs, so one    *)
(* thread runs at most one handler invocation at a time.                   *)
(*                                                                         *)
(* A pointer to the handler's local `data` is <<t, "cur">>: the frame of   *)
(* the latest handler invocation on thread t.  When a new invocation       *)
(* starts on t, every pointer to an earlier frame of t becomes             *)
(* <<t, "old">>.                                                           *)
(*                                                                         *)
(* The thread population is fixed (two sampled threads and the timer       *)
(* thread), start and stop may alternate without limit, and                *)
(* Profiler::recordSample is taken to return whatever pointer it is given: *)
(* a read through a null or stale pointer is reported by the property on   *)
(* the recorder's context, the run goes on after it.                       *)
(*                                                                         *)
(* Three specifications share the lifecycle and the variables:             *)
(*   Spec, FairSpec  the handshake between walkStack and signalHandler,    *)
(*                   one step per atomic access, in a process of two       *)
(*                   sampled threads;                                      *)
(*   LoopSpec        the selection of threads by timerLoop in a process    *)
(*                   with more threads than THREADS_PER_TICK, a walkStack  *)
(*                   call being one step;                                  *)
(*   CadenceSpec     the settings start resolves and the clock arithmetic  *)
(*                   of timerLoop, the inner loop being one step.          *)
(***************************************************************************)
EXTENDS Integers, Sequences, FiniteSets

\* ------------------------------------------------------------- constants

\* const int THREADS_PER_TICK = 8;
THREADS_PER_TICK == 8

\* the sentinel walkStack writes to _thread_id when it gives up
NoThread == -1

\* int self = OS::threadId(): the tid of the timer thread
Self == 3

\* the threads the process samples (every thread but the timer thread)
Targets == {1, 2}

\* OS::listThreads(): the timer thread itself is one of the listed threads
ThreadList == <<1, Self, 2>>

NULL == <<>>

\* const long MIN_INTERVAL = 100000;
MIN_INTERVAL == 100000

\* DEFAULT_INTERVAL of arguments.h: the sampling interval used when none is given
DEFAULT_INTERVAL == 10000000

\* EVENT_WALL of arguments.h: the name of the wall-clock event
EVENT_WALL == "wall"

\* the values of enum ThreadState
ThreadStates == {"THREAD_UNKNOWN", "THREAD_RUNNING", "THREAD_SLEEPING"}

\* the number of threads of the crowded process (more than THREADS_PER_TICK)
LoopThreads == 11

\* OS::listThreads() in the crowded process: tids 1..LoopThreads, Self among them
LongThreadList == [i \in 1..LoopThreads |-> i]

LoopTids == 1..LoopThreads

\* the tids with an even number
Evens == {t \in LoopTids : t % 2 = 0}

VARIABLES
    running,                \* WallClock::_running
    api,                    \* "stopped" | "started" | "joining": where the caller of start/stop is
    tpc,                    \* position of the timer thread
    cursor,                 \* thread_list's cursor (index of the next entry)
    count,                  \* timerLoop's `count`
    target,                 \* walkStack's parameter thread_id
    data,                   \* walkStack's local `data`
    result,                 \* the value walkStack returns
    thread_id,              \* _thread_id
    thread_data,            \* _thread_data
    thread_data_settable,   \* _thread_data_settable
    thread_data_ready,      \* _thread_data_ready
    stack_walked,           \* _stack_walked
    pending,                \* per thread: the SIGVTALRM pending on it, tagged with its handshake
    hpc,                    \* per thread: position of its handler invocation
    origin,                 \* per thread: the handshake whose signal started the invocation
    arm_wins,               \* compare-and-swap successes since the last settable = true
    rec_calls,              \* recordSample calls made by the walkStack call in progress
    released_for,           \* the `data` of the walkStack call that last wrote _stack_walked = true
    args,                   \* the Arguments start is called with: _wall, _interval, _event
    filter,                 \* the ThreadFilter: whether it is enabled and the tids it accepts
    os_running,             \* the tids OS::threadState reports as THREAD_RUNNING
    interval,               \* WallClock::_interval
    sample_idle_threads,    \* WallClock::_sample_idle_threads
    sample_idle,            \* timerLoop's local copy of _sample_idle_threads
    thread_filter_enabled,  \* timerLoop's local thread_filter_enabled
    now,                    \* the clock OS::nanotime() reads
    next_cycle_time,        \* timerLoop's next_cycle_time
    estimated_thread_count, \* timerLoop's estimated_thread_count
    slept,                  \* the duration of timerLoop's last end-of-iteration OS::sleep
    event_state,            \* event._thread_state of the last recordSample call
    attempts,               \* per tid: walkStack calls made by the timerLoop in progress
    rewinds,                \* thread_list->rewind() calls made by the timerLoop in progress
    rec_tick                \* recordSample calls since the last end-of-iteration sleep

slot == <<thread_id, thread_data, thread_data_settable, thread_data_ready, stack_walked>>
timer == <<tpc, cursor, count, target, data, result>>
life == <<running, api>>
ghost == <<arm_wins, rec_calls, released_for>>
config == <<args, filter, os_running>>
settings == <<interval, sample_idle_threads>>
copies == <<sample_idle, thread_filter_enabled>>
cadence == <<now, next_cycle_time, estimated_thread_count, slept>>
tally == <<event_state, attempts, rewinds, rec_tick>>
more == <<config, settings, copies, cadence, tally>>
vars == <<running, api, tpc, cursor, count, target, data, result,
          thread_id, thread_data, thread_data_settable, thread_data_ready,
          stack_walked, pending, hpc, origin, arm_wins, rec_calls, released_for,
          args, filter, os_running, interval, sample_idle_threads, sample_idle,
          thread_filter_enabled, now, next_cycle_time, estimated_thread_count,
          slept, event_state,
          attempts, rewinds, rec_tick>>

Pointers == {NULL} \cup (Targets \X {"cur", "old"})

\* the frame p points to belongs to an invocation that has stored `data`
\* and has not returned
Live(p) == p # NULL /\ p[2] = "cur" /\ hpc[p[1]] \in {"h_ready", "h_spin"}

\* a new invocation starts on thread t: pointers into t's earlier frame go stale
Aged(p, t) == IF p # NULL /\ p[1] = t THEN <<t, "old">> ELSE p

\* the handshake of the walkStack call in progress ends: its signal and the
\* invocation it started now belong to a handshake that is over
Ended(f, how) == [t \in Targets |-> IF f[t] = "fresh" THEN how ELSE f[t]]

TypeOK ==
    /\ running \in BOOLEAN
    /\ api \in {"stopped", "started", "joining"}
    /\ tpc \in {"off", "init", "head", "next", "w_tid", "w_data", "w_settable",
                "w_walked", "w_ready", "w_send", "w_wait", "w_timeout", "w_load",
                "w_record", "w_in_record", "w_release", "w_ret", "done",
                "walks", "sleep"}
    /\ cursor \in 1..(LoopThreads + 1)
    /\ count \in 0..THREADS_PER_TICK
    /\ target \in LoopTids \cup {NoThread}
    /\ data \in Pointers
    /\ result \in BOOLEAN
    /\ thread_id \in Targets \cup {NoThread, 0}
    /\ thread_data \in Pointers
    /\ thread_data_settable \in BOOLEAN
    /\ thread_data_ready \in BOOLEAN
    /\ stack_walked \in BOOLEAN
    /\ pending \in [Targets -> {"none", "fresh", "abandoned", "spent"}]
    /\ hpc \in [Targets -> {"idle", "h_tid", "h_cas", "h_data", "h_ready", "h_spin"}]
    /\ origin \in [Targets -> {"fresh", "abandoned", "spent"}]
    /\ arm_wins \in Nat
    /\ rec_calls \in Nat
    /\ released_for \in Pointers
    /\ args.wall \in Int /\ args.interval \in Nat
    /\ filter.enabled \in BOOLEAN /\ filter.accepted \subseteq LoopTids
    /\ os_running \subseteq LoopTids
    /\ interval \in Nat
    /\ sample_idle_threads \in BOOLEAN
    /\ sample_idle \in BOOLEAN
    /\ thread_filter_enabled \in BOOLEAN
    /\ now \in Nat
    /\ next_cycle_time \in Nat
    /\ estimated_thread_count \in Nat
    /\ slept \in Nat
    /\ event_state \in ThreadStates
    /\ attempts \in [LoopTids -> Nat]
    /\ rewinds \in Nat
    /\ rec_tick \in Nat

\* The atomics and the static members are globals with static storage:
\* zero-initialised.  No timer thread exists, the clock reads 0.
Zeroed ==
    /\ running = FALSE
    /\ api = "stopped"
    /\ tpc = "off"
    /\ cursor = 1
    /\ count = 0
    /\ target = NoThread
    /\ data = NULL
    /\ result = FALSE
    /\ thread_id = 0
    /\ thread_data = NULL
    /\ thread_data_settable = FALSE
    /\ thread_data_ready = FALSE
    /\ stack_walked = FALSE
    /\ pending = [t \in Targets |-> "none"]
    /\ hpc = [t \in Targets |-> "idle"]
    /\ origin = [t \in Targets |-> "spent"]
    /\ arm_wins = 0
    /\ rec_calls = 0
    /\ released_for = NULL
    /\ interval = 0
    /\ sample_idle_threads = FALSE
    /\ sample_idle = FALSE
    /\ thread_filter_enabled = FALSE
    /\ now = 0
    /\ next_cycle_time = 0
    /\ estimated_thread_count = 0
    /\ slept = 0
    /\ event_state = "THREAD_UNKNOWN"
    /\ attempts = [t \in LoopTids |-> 0]
    /\ rewinds = 0
    /\ rec_tick = 0

\* The process of the handshake: start is called without a wall interval for
\* an event other than wall, no thread filter is in use.
Init ==
    /\ Zeroed
    /\ args = [wall |-> -1, interval |-> 0, event |-> "cpu"]
    /\ filter = [enabled |-> FALSE, accepted |-> {}]
    /\ os_running = Targets

\* ------------------------------------------------------------- lifecycle

\* C++ integer division: the quotient is truncated towards zero
Div(a, b) == IF a >= 0 THEN a \div b ELSE -((-a) \div b)

\* _sample_idle_threads = args._wall >= 0 || strcmp(args._event, EVENT_WALL) == 0;
SampleIdle(a) == a.wall >= 0 \/ a.event = EVENT_WALL

\* EffectiveInterval without the default that replaces 0
EffectiveInterval_NoDefault(a) ==
    IF a.wall >= 0 THEN a.wall ELSE a.interval

\* _interval = args._wall >= 0 ? args._wall : args._interval; and the default
\* that replaces 0
EffectiveInterval(a) ==
    LET given == IF a.wall >= 0 THEN a.wall ELSE a.interval
    IN  IF given = 0
        THEN IF SampleIdle(a) THEN DEFAULT_INTERVAL * 5 ELSE DEFAULT_INTERVAL
        ELSE given

\* WallClock::start: the settings are resolved from the arguments, then
\* _running = true and the timer thread is created
Start ==
    /\ api = "stopped"
    /\ sample_idle_threads' = SampleIdle(args)
    /\ interval' = EffectiveInterval(args)
    /\ running' = TRUE
    /\ api' = "started"
    /\ tpc' = "init"
    /\ UNCHANGED <<cursor, count, target, data, result, slot, pending, hpc, origin, ghost>>
    /\ UNCHANGED <<config, copies, cadence, tally>>

\* WallClock::stop, first half: _running = false and the wakeup signal
StopRequest ==
    /\ api = "started"
    /\ running' = FALSE
    /\ api' = "joining"
    /\ UNCHANGED <<timer, slot, pending, hpc, origin, ghost>>
    /\ UNCHANGED more

\* WallClock::stop, second half: pthread_join returns once the timer thread has ended
StopJoin ==
    /\ api = "joining"
    /\ tpc = "done"
    /\ tpc' = "off"
    /\ api' = "stopped"
    /\ UNCHANGED <<running, cursor, count, target, data, result, slot,
                   pending, hpc, origin, ghost>>
    /\ UNCHANGED more

\* ------------------------------------------------------------ timer loop

\* timerLoop's prologue: the locals are set, OS::listThreads() gives a list
\* with a fresh cursor, next_cycle_time = OS::nanotime()
TimerInit ==
    /\ tpc = "init"
    /\ thread_filter_enabled' = filter.enabled
    /\ sample_idle' = sample_idle_threads
    /\ cursor' = 1
    /\ next_cycle_time' = now
    /\ attempts' = [t \in LoopTids |-> 0]
    /\ rewinds' = 0
    /\ rec_tick' = 0
    /\ tpc' = "head"
    /\ UNCHANGED <<life, count, target, data, result, slot, pending, hpc, origin, ghost>>
    /\ UNCHANGED <<config, settings, now, estimated_thread_count, slept, event_state>>

\* LoopHead with the loop condition dropped: while (true)
LoopHead_IgnoresRunning ==
    /\ tpc = "head"
    /\ \E enabled \in BOOLEAN :
          IF enabled
          THEN tpc' = "next" /\ count' = 0
          ELSE UNCHANGED <<tpc, count>>
    /\ UNCHANGED <<life, cursor, target, data, result, slot, pending, hpc, origin, ghost>>
    /\ UNCHANGED more

\* while (_running): leave the loop, or sleep and continue when the engine is
\* not enabled (Engine::_enabled is written by code outside this file: either
\* value may be read), or begin an iteration with count = 0
LoopHead ==
    /\ tpc = "head"
    /\ IF ~running
       THEN /\ tpc' = "done"
            /\ UNCHANGED count
       ELSE \E enabled \in BOOLEAN :
               IF enabled
               THEN tpc' = "next" /\ count' = 0
               ELSE UNCHANGED <<tpc, count>>
    /\ UNCHANGED <<life, cursor, target, data, result, slot, pending, hpc, origin, ghost>>
    /\ UNCHANGED more

\* one pass of the inner for loop up to the call of walkStack; `sampled` is
\* the outcome of the filter and of the thread-state test of line 205
NextThread ==
    /\ tpc = "next"
    /\ IF count >= THREADS_PER_TICK
       THEN /\ tpc' = "head"
            /\ UNCHANGED <<cursor, target>>
       ELSE IF cursor > Len(ThreadList)
       THEN /\ cursor' = 1
            /\ tpc' = "head"
            /\ UNCHANGED target
       ELSE /\ cursor' = cursor + 1
            /\ IF ThreadList[cursor] = Self
               THEN UNCHANGED <<tpc, target>>
               ELSE \E sampled \in BOOLEAN :
                       IF sampled
                       THEN target' = ThreadList[cursor] /\ tpc' = "w_tid"
                       ELSE UNCHANGED <<tpc, target>>
    /\ UNCHANGED <<life, count, data, result, slot, pending, hpc, origin, ghost>>
    /\ UNCHANGED more

\* AfterWalk with the return value ignored: walkStack(thread_id); count++;
AfterWalk_CountsAlways ==
    /\ tpc = "w_ret"
    /\ count' = count + 1
    /\ target' = NoThread
    /\ data' = NULL
    /\ result' = FALSE
    /\ rec_calls' = 0
    /\ tpc' = "next"
    /\ UNCHANGED <<life, cursor, slot, pending, hpc, origin, arm_wins, released_for>>
    /\ UNCHANGED more

\* if (walkStack(thread_id)) count++;  The call is over: its parameter, its
\* local and its return value are gone
AfterWalk ==
    /\ tpc = "w_ret"
    /\ count' = IF result THEN count + 1 ELSE count
    /\ target' = NoThread
    /\ data' = NULL
    /\ result' = FALSE
    /\ rec_calls' = 0
    /\ tpc' = "next"
    /\ UNCHANGED <<life, cursor, slot, pending, hpc, origin, arm_wins, released_for>>
    /\ UNCHANGED more

\* ------------------------------------------------------------- walkStack

\* _thread_id = thread_id;
ArmThreadId ==
    /\ tpc = "w_tid"
    /\ thread_id' = target
    /\ tpc' = "w_data"
    /\ UNCHANGED <<life, cursor, count, target, data, result, thread_data,
                   thread_data_settable, thread_data_ready, stack_walked,
                   pending, hpc, origin, ghost>>
    /\ UNCHANGED more

\* _thread_data = nullptr;
ArmData ==
    /\ tpc = "w_data"
    /\ thread_data' = NULL
    /\ tpc' = "w_settable"
    /\ UNCHANGED <<life, cursor, count, target, data, result, thread_id,
                   thread_data_settable, thread_data_ready, stack_walked,
                   pending, hpc, origin, ghost>>
    /\ UNCHANGED more

\* _thread_data_settable = true;
ArmSettable ==
    /\ tpc = "w_settable"
    /\ thread_data_settable' = TRUE
    /\ arm_wins' = 0
    /\ tpc' = "w_walked"
    /\ UNCHANGED <<life, cursor, count, target, data, result, thread_id,
                   thread_data, thread_data_ready, stack_walked,
                   pending, hpc, origin, rec_calls, released_for>>
    /\ UNCHANGED more

\* _stack_walked = false;
ArmWalked ==
    /\ tpc = "w_walked"
    /\ stack_walked' = FALSE
    /\ released_for' = NULL
    /\ tpc' = "w_ready"
    /\ UNCHANGED <<life, cursor, count, target, data, result, thread_id,
                   thread_data, thread_data_settable, thread_data_ready,
                   pending, hpc, origin, arm_wins, rec_calls>>
    /\ UNCHANGED more

\* _thread_data_ready = false;
ArmReady ==
    /\ tpc = "w_ready"
    /\ thread_data_ready' = FALSE
    /\ tpc' = "w_send"
    /\ UNCHANGED <<life, cursor, count, target, data, result, thread_id,
                   thread_data, thread_data_settable, stack_walked,
                   pending, hpc, origin, ghost>>
    /\ UNCHANGED more

\* OS::sendSignalToThread(thread_id, SIGVTALRM): the signal becomes pending on
\* the thread (one pending SIGVTALRM per thread: a second one merges with it),
\* or the call fails and walkStack writes _thread_id = -1 and returns false
SendSignal ==
    /\ tpc = "w_send"
    /\ \E sent \in BOOLEAN :
          IF sent
          THEN /\ pending' = [pending EXCEPT ![target] = "fresh"]
               /\ tpc' = "w_wait"
               /\ UNCHANGED <<thread_id, result, origin>>
          ELSE /\ thread_id' = NoThread
               /\ result' = FALSE
               /\ tpc' = "w_ret"
               /\ UNCHANGED <<pending, origin>>
    /\ UNCHANGED <<life, cursor, count, target, data, thread_data,
                   thread_data_settable, thread_data_ready, stack_walked, hpc, ghost>>
    /\ UNCHANGED more

\* waitWhile(!_thread_data_ready, 10 ms): one evaluation of the condition.
\* When it finds the flag false the loop either goes round again or finds the
\* 10 ms used up and returns false
WaitReady ==
    /\ tpc = "w_wait"
    /\ IF thread_data_ready
       THEN tpc' = "w_load"
       ELSE \E expired \in BOOLEAN :
               IF expired THEN tpc' = "w_timeout" ELSE UNCHANGED tpc
    /\ UNCHANGED <<life, cursor, count, target, data, result, slot, pending,
                   hpc, origin, ghost>>
    /\ UNCHANGED more

\* the timeout branch: _thread_id = -1; return false;
WalkTimeout ==
    /\ tpc = "w_timeout"
    /\ thread_id' = NoThread
    /\ result' = FALSE
    /\ pending' = Ended(pending, "abandoned")
    /\ origin' = Ended(origin, "abandoned")
    /\ tpc' = "w_ret"
    /\ UNCHANGED <<life, cursor, count, target, data, thread_data,
                   thread_data_settable, thread_data_ready, stack_walked, hpc, ghost>>
    /\ UNCHANGED more

\* Data *data = _thread_data.load();
LoadData ==
    /\ tpc = "w_load"
    /\ data' = thread_data
    /\ tpc' = "w_record"
    /\ UNCHANGED <<life, cursor, count, target, result, slot, pending, hpc,
                   origin, ghost>>
    /\ UNCHANGED more

\* data->ucontext is read and Profiler::recordSample is entered
CallRecorder ==
    /\ tpc = "w_record"
    /\ rec_calls' = rec_calls + 1
    /\ tpc' = "w_in_record"
    /\ UNCHANGED <<life, cursor, count, target, data, result, slot, pending,
                   hpc, origin, arm_wins, released_for>>
    /\ UNCHANGED more

\* Profiler::recordSample returns
RecorderReturn ==
    /\ tpc = "w_in_record"
    /\ tpc' = "w_release"
    /\ UNCHANGED <<life, cursor, count, target, data, result, slot, pending,
                   hpc, origin, ghost>>
    /\ UNCHANGED more

\* _stack_walked = true; return true;
Release ==
    /\ tpc = "w_release"
    /\ stack_walked' = TRUE
    /\ released_for' = data
    /\ result' = TRUE
    /\ pending' = Ended(pending, "spent")
    /\ origin' = Ended(origin, "spent")
    /\ tpc' = "w_ret"
    /\ UNCHANGED <<life, cursor, count, target, data, thread_id, thread_data,
                   thread_data_settable, thread_data_ready, hpc, arm_wins, rec_calls>>
    /\ UNCHANGED more

\* --------------------------------------------------------- signalHandler

\* the invocation on thread t moves on to its next statement
Goto(t, at) ==
    /\ hpc' = [hpc EXCEPT ![t] = at]
    /\ UNCHANGED origin

\* the invocation on thread t returns
Return(t) ==
    /\ hpc' = [hpc EXCEPT ![t] = "idle"]
    /\ origin' = [origin EXCEPT ![t] = "spent"]

\* the kernel delivers the pending SIGVTALRM: signalHandler is entered on
\* thread t (not while an earlier invocation is still running on t)
Deliver(t) ==
    /\ pending[t] # "none"
    /\ hpc[t] = "idle"
    /\ pending' = [pending EXCEPT ![t] = "none"]
    /\ origin' = [origin EXCEPT ![t] = pending[t]]
    /\ hpc' = [hpc EXCEPT ![t] = "h_tid"]
    /\ thread_data' = Aged(thread_data, t)
    /\ data' = Aged(data, t)
    /\ released_for' = Aged(released_for, t)
    /\ UNCHANGED <<life, tpc, cursor, count, target, result, thread_id,
                   thread_data_settable, thread_data_ready, stack_walked,
                   arm_wins, rec_calls>>
    /\ UNCHANGED more

\* CheckThreadId with the early return missing: the handler goes on to the
\* compare-and-swap whatever _thread_id holds
CheckThreadId_NoReturn(t) ==
    /\ hpc[t] = "h_tid"
    /\ Goto(t, "h_cas")
    /\ UNCHANGED <<life, timer, slot, pending, ghost>>
    /\ UNCHANGED more

\* if (OS::threadId() != _thread_id) return;
CheckThreadId(t) ==
    /\ hpc[t] = "h_tid"
    /\ IF t # thread_id THEN Return(t) ELSE Goto(t, "h_cas")
    /\ UNCHANGED <<life, timer, slot, pending, ghost>>
    /\ UNCHANGED more

\* CompareExchange as a plain test of the flag: the winner does not clear it
CompareExchange_NoClear(t) ==
    /\ hpc[t] = "h_cas"
    /\ IF thread_data_settable
       THEN /\ arm_wins' = arm_wins + 1
            /\ Goto(t, "h_data")
       ELSE /\ Return(t)
            /\ UNCHANGED arm_wins
    /\ UNCHANGED <<life, timer, slot, pending, rec_calls, released_for>>
    /\ UNCHANGED more

\* if (!_thread_data_settable.compare_exchange_strong(f, false)) return;
\* on success the handler goes on to build `data` on its own stack
CompareExchange(t) ==
    /\ hpc[t] = "h_cas"
    /\ IF thread_data_settable
       THEN /\ thread_data_settable' = FALSE
            /\ arm_wins' = arm_wins + 1
            /\ Goto(t, "h_data")
       ELSE /\ Return(t)
            /\ UNCHANGED <<thread_data_settable, arm_wins>>
    /\ UNCHANGED <<life, timer, thread_id, thread_data, thread_data_ready,
                   stack_walked, pending, rec_calls, released_for>>
    /\ UNCHANGED more

\* _thread_data = &data;
PublishData(t) ==
    /\ hpc[t] = "h_data"
    /\ thread_data' = <<t, "cur">>
    /\ Goto(t, "h_ready")
    /\ UNCHANGED <<life, timer, thread_id, thread_data_settable,
                   thread_data_ready, stack_walked, pending, ghost>>
    /\ UNCHANGED more

\* _thread_data_ready = true;
PublishReady(t) ==
    /\ hpc[t] = "h_ready"
    /\ thread_data_ready' = TRUE
    /\ Goto(t, "h_spin")
    /\ UNCHANGED <<life, timer, thread_id, thread_data, thread_data_settable,
                   stack_walked, pending, ghost>>
    /\ UNCHANGED more

\* waitWhile(!_stack_walked): one evaluation of the condition, no timeout;
\* the handler returns when it reads true
SpinWalked(t) ==
    /\ hpc[t] = "h_spin"
    /\ stack_walked
    /\ Return(t)
    /\ UNCHANGED <<life, timer, slot, pending, ghost>>
    /\ UNCHANGED more

Handler(t) ==
    \/ CheckThreadId(t)
    \/ CompareExchange(t)
    \/ PublishData(t)
    \/ PublishReady(t)
    \/ SpinWalked(t)

Timer ==
    \/ TimerInit
    \/ LoopHead
    \/ NextThread
    \/ AfterWalk
    \/ ArmThreadId
    \/ ArmData
    \/ ArmSettable
    \/ ArmWalked
    \/ ArmReady
    \/ SendSignal
    \/ WaitReady
    \/ WalkTimeout
    \/ LoadData
    \/ CallRecorder
    \/ RecorderReturn
    \/ Release

Next ==
    \/ Start
    \/ StopRequest
    \/ StopJoin
    \/ Timer
    \/ \E t \in Targets : Deliver(t)
    \/ \E t \in Targets : Handler(t)

Spec == Init /\ [][Next]_vars

\* The threads are scheduled fairly: the timer thread and every thread inside
\* the handler keep taking steps, and the thread blocked in pthread_join
\* returns once the timer thread has ended.  Nothing obliges the application
\* to call start or stop, nor the kernel to deliver a pending signal soon.
FairSpec ==
    /\ Init /\ [][Next]_vars
    /\ WF_vars(Timer)
    /\ WF_vars(StopJoin)
    /\ \A t \in Targets : WF_vars(Handler(t))

\* ------------------------------------------ timerLoop in a crowded process

(***************************************************************************)
(* The inner loop of timerLoop in a process with more threads than         *)
(* THREADS_PER_TICK, with the thread filter and the thread states the OS    *)
(* reports.  The population, the filter and the thread states are fixed.   *)
(* The handshake of walkStack is the subject of Spec; here a call is one   *)
(* step that either fails or calls the recorder once and succeeds.         *)
(***************************************************************************)

\* the number of times the thread list is rewound in one run of timerLoop
MaxRewinds == 2

\* the arguments of start: a wall interval given or not, the event wall or not
LoopArgs ==
    {[wall |-> -1, interval |-> 0, event |-> "cpu"],
     [wall |-> -1, interval |-> 0, event |-> "wall"],
     [wall |-> 0, interval |-> 0, event |-> "cpu"]}

LoopInit ==
    /\ Zeroed
    /\ args \in LoopArgs
    /\ filter \in [enabled : BOOLEAN, accepted : {LoopTids, Evens}]
    /\ os_running \in {LoopTids, LoopTids \ Evens}

\* the loop condition with the bound included: count <= THREADS_PER_TICK
InnerLoopRuns_OffByOne(c) == c <= THREADS_PER_TICK

\* for (int count = 0; count < THREADS_PER_TICK; )
InnerLoopRuns(c) == c < THREADS_PER_TICK

\* the test of line 201 without the filter: thread_id == self
Skipped_SelfOnly(tid) == tid = Self

\* thread_id == self || (thread_filter_enabled && !thread_filter->accept(thread_id))
Skipped(tid) == tid = Self \/ (thread_filter_enabled /\ tid \notin filter.accepted)

\* OS::threadState(thread_id)
ThreadState(tid) == IF tid \in os_running THEN "THREAD_RUNNING" ELSE "THREAD_SLEEPING"

\* the test of line 205 dropped: every thread that is not skipped is walked
Sampled_Always(tid) == TRUE

\* sample_idle_threads || OS::threadState(thread_id) == THREAD_RUNNING
Sampled(tid) == sample_idle \/ ThreadState(tid) = "THREAD_RUNNING"

\* SelectThread with the list rewound whenever the inner loop ends
SelectThread_RewindsAtCap ==
    /\ tpc = "next"
    /\ IF ~InnerLoopRuns(count)
       THEN /\ cursor' = 1
            /\ tpc' = "head"
            /\ rec_tick' = 0
            /\ UNCHANGED <<target, attempts, rewinds>>
       ELSE IF cursor > Len(LongThreadList)
       THEN /\ rewinds < MaxRewinds
            /\ cursor' = 1
            /\ rewinds' = rewinds + 1
            /\ tpc' = "head"
            /\ rec_tick' = 0
            /\ UNCHANGED <<target, attempts>>
       ELSE /\ cursor' = cursor + 1
            /\ IF Skipped(LongThreadList[cursor]) \/ ~Sampled(LongThreadList[cursor])
               THEN UNCHANGED <<tpc, target, attempts>>
               ELSE /\ target' = LongThreadList[cursor]
                    /\ attempts' = [attempts EXCEPT ![LongThreadList[cursor]] = @ + 1]
                    /\ tpc' = "w_tid"
            /\ UNCHANGED <<rewinds, rec_tick>>
    /\ UNCHANGED <<life, count, data, result, slot, pending, hpc, origin, ghost>>
    /\ UNCHANGED <<config, settings, copies, cadence, event_state>>

\* one pass of the inner for loop up to the call of walkStack: the loop ends
\* (and the iteration with it, in the sleep of lines 212-222) when count has
\* reached THREADS_PER_TICK or when next() returns -1, the only place where
\* the list is rewound; otherwise the cursor moves on by one thread, which is
\* skipped or walked
SelectThread ==
    /\ tpc = "next"
    /\ IF ~InnerLoopRuns(count)
       THEN /\ tpc' = "head"
            /\ rec_tick' = 0
            /\ UNCHANGED <<cursor, target, attempts, rewinds>>
       ELSE IF cursor > Len(LongThreadList)
       THEN /\ rewinds < MaxRewinds
            /\ cursor' = 1
            /\ rewinds' = rewinds + 1
            /\ tpc' = "head"
            /\ rec_tick' = 0
            /\ UNCHANGED <<target, attempts>>
       ELSE /\ cursor' = cursor + 1
            /\ IF Skipped(LongThreadList[cursor]) \/ ~Sampled(LongThreadList[cursor])
               THEN UNCHANGED <<tpc, target, attempts>>
               ELSE /\ target' = LongThreadList[cursor]
                    /\ attempts' = [attempts EXCEPT ![LongThreadList[cursor]] = @ + 1]
                    /\ tpc' = "w_tid"
            /\ UNCHANGED <<rewinds, rec_tick>>
    /\ UNCHANGED <<life, count, data, result, slot, pending, hpc, origin, ghost>>
    /\ UNCHANGED <<config, settings, copies, cadence, event_state>>

\* what getThreadState reads of the interrupted frame: whether pc points to a
\* syscall instruction, whether the address of the previous instruction is
\* readable ((pc & 0xfff) >= SYSCALL_SIZE or inside a known library), whether
\* that instruction is a syscall, and frame.checkInterruptedSyscall()
Frames ==
    [pc_syscall : BOOLEAN, prev_readable : BOOLEAN,
     prev_syscall : BOOLEAN, interrupted : BOOLEAN]

\* WallClock::getThreadState
getThreadState(f) ==
    IF f.pc_syscall
    THEN "THREAD_SLEEPING"
    ELSE IF f.prev_readable /\ f.prev_syscall /\ f.interrupted
    THEN "THREAD_SLEEPING"
    ELSE "THREAD_RUNNING"

\* event._thread_state = _sample_idle_threads ? getThreadState(data->ucontext) : THREAD_UNKNOWN;
EventState(f) == IF sample_idle_threads THEN getThreadState(f) ELSE "THREAD_UNKNOWN"

\* a whole call walkStack(target): it gives up (the signal could not be sent,
\* or the wait timed out) and returns false, or it builds the event, calls
\* the recorder once and returns true
WalkStack ==
    /\ tpc = "w_tid"
    /\ \E ok \in BOOLEAN, f \in Frames :
          /\ result' = ok
          /\ rec_calls' = IF ok THEN 1 ELSE 0
          /\ rec_tick' = IF ok THEN rec_tick + 1 ELSE rec_tick
          /\ event_state' = IF ok THEN EventState(f) ELSE event_state
    /\ tpc' = "w_ret"
    /\ UNCHANGED <<life, cursor, count, target, data, slot, pending, hpc, origin,
                   arm_wins, released_for>>
    /\ UNCHANGED <<config, settings, copies, cadence, attempts, rewinds>>

LoopNext ==
    \/ Start
    \/ StopRequest
    \/ StopJoin
    \/ TimerInit
    \/ LoopHead
    \/ SelectThread
    \/ WalkStack
    \/ AfterWalk

LoopSpec == LoopInit /\ [][LoopNext]_vars

\* ------------------------------------------------ the cadence of timerLoop

(***************************************************************************)
(* The timing of timerLoop: how far next_cycle_time is moved at the start  *)
(* of an iteration and how long the iteration sleeps at its end, for the   *)
(* settings start resolves from its arguments.  The inner loop is one step *)
(* that takes some time.                                                   *)
(***************************************************************************)

\* no step lets time pass once the clock has reached MaxTime
MaxTime == 1000000

\* the largest thread count adjustInterval is tried with
MaxThreadCount == 64

\* the arguments start is called with
ArgsSet ==
    [wall : {-1, 0, 150000, 10000000},
     interval : {0, 50000, 250000, 10000000},
     event : {EVENT_WALL, "cpu"}]

\* the sizes thread_filter->size() and thread_list->size() report
ThreadCounts == {0, THREADS_PER_TICK, THREADS_PER_TICK + 1, MaxThreadCount}

\* the time the inner loop of one iteration takes
Elapses == {0, 60000, 400000}

CadenceInit ==
    /\ Zeroed
    /\ args \in ArgsSet
    /\ filter = [enabled |-> FALSE, accepted |-> {}]
    /\ os_running = LoopTids

\* adjustInterval with the quotient of the thread count rounded down
adjustInterval_RoundsDown(i, thread_count) ==
    IF thread_count > THREADS_PER_TICK
    THEN Div(i, Div(thread_count, THREADS_PER_TICK))
    ELSE i

\* WallClock::adjustInterval
adjustInterval(i, thread_count) ==
    IF thread_count > THREADS_PER_TICK
    THEN Div(i, Div(thread_count + THREADS_PER_TICK - 1, THREADS_PER_TICK))
    ELSE i

\* the head of the while loop: leave when _running is false; sleep _interval
\* and try again when the engine is not enabled; otherwise, when idle threads
\* are sampled, move next_cycle_time on by the adjusted interval
CycleBegin ==
    /\ tpc = "head"
    /\ IF ~running
       THEN /\ tpc' = "done"
            /\ UNCHANGED <<now, next_cycle_time, estimated_thread_count>>
       ELSE \E enabled \in BOOLEAN :
               IF ~enabled
               THEN /\ now < MaxTime
                    /\ now' = now + interval
                    /\ UNCHANGED <<tpc, next_cycle_time, estimated_thread_count>>
               ELSE /\ tpc' = "walks"
                    /\ IF sample_idle
                       THEN \E n \in ThreadCounts :
                               /\ estimated_thread_count' = n
                               /\ next_cycle_time' = next_cycle_time + adjustInterval(interval, n)
                       ELSE UNCHANGED <<next_cycle_time, estimated_thread_count>>
                    /\ UNCHANGED now
    /\ UNCHANGED <<life, cursor, count, target, data, result, slot, pending,
                   hpc, origin, ghost>>
    /\ UNCHANGED <<config, settings, copies, slept, tally>>

\* the inner for loop, as far as the clock is concerned
CycleWalks ==
    /\ tpc = "walks"
    /\ now < MaxTime
    /\ \E d \in Elapses : now' = now + d
    /\ tpc' = "sleep"
    /\ UNCHANGED <<life, cursor, count, target, data, result, slot, pending,
                   hpc, origin, ghost>>
    /\ UNCHANGED <<config, settings, copies, next_cycle_time,
                   estimated_thread_count, slept, tally>>

\* the duration of the end-of-iteration sleep (lines 212-222)
SleepFor(idle, next_cycle, current_time) ==
    IF idle
    THEN IF next_cycle - current_time > MIN_INTERVAL
         THEN next_cycle - current_time
         ELSE MIN_INTERVAL
    ELSE interval

\* the end of an iteration: current_time = OS::nanotime(), next_cycle_time is
\* reset when the slack is used up, and the thread sleeps
CycleSleep ==
    /\ tpc = "sleep"
    /\ now < MaxTime
    /\ slept' = SleepFor(sample_idle, next_cycle_time, now)
    /\ next_cycle_time' =
          IF sample_idle /\ ~(next_cycle_time - now > MIN_INTERVAL)
          THEN now + MIN_INTERVAL
          ELSE next_cycle_time
    /\ now' = now + slept'
    /\ tpc' = "head"
    /\ UNCHANGED <<life, cursor, count, target, data, result, slot, pending,
                   hpc, origin, ghost>>
    /\ UNCHANGED <<config, settings, copies, estimated_thread_count, tally>>

CadenceNext ==
    \/ Start
    \/ StopRequest
    \/ StopJoin
    \/ TimerInit
    \/ CycleBegin
    \/ CycleWalks
    \/ CycleSleep

CadenceSpec == CadenceInit /\ [][CadenceNext]_vars

\* ---------------------------------------------------------------- claims

\* the invocations that won the compare-and-swap and have not returned
InFlight == {t \in Targets : hpc[t] \in {"h_data", "h_ready", "h_spin"}}

\* C1: while walkStack is inside the recorder, the pointer it loaded from
\* _thread_data is non-null and the handler invocation whose frame it points
\* to has not returned.
C1_RecorderContextLive == tpc = "w_in_record" => Live(data)

\* C2: a handler invocation that won the compare-and-swap leaves its spin only
\* after the release write of the walkStack call that consumed its context:
\* the _stack_walked = true it reads on its way out was written by the call
\* whose `data` was its own frame, never by another handshake.  (A release
\* written by a call that loaded a null pointer belongs to C1 and is left
\* aside here.)
C2_NoEarlyRelease ==
    [][\A t \in Targets :
          (hpc[t] = "h_spin" /\ hpc'[t] = "idle")
             => released_for \in {NULL, <<t, "cur">>}]_vars

\* C3: between two writes _thread_data_settable = true at most one handler
\* invocation wins the compare-and-swap, and every other invocation that
\* reaches the compare-and-swap in that arm phase fails it and returns.
C3_OneWinnerPerArm ==
    /\ [](arm_wins <= 1)
    /\ [][\A t \in Targets :
             (hpc[t] = "h_cas" /\ arm_wins >= 1 /\ hpc'[t] # hpc[t])
                => (hpc'[t] = "idle" /\ arm_wins' = arm_wins)]_vars

\* C3 witness: one invocation has won this arm phase and another one stands
\* at the compare-and-swap
C3_Witness ==
    \E t, u \in Targets :
        /\ t # u
        /\ hpc[t] \in {"h_data", "h_ready", "h_spin"}
        /\ hpc[u] = "h_cas"
        /\ arm_wins = 1
        /\ ~thread_data_settable

\* the states in which walkStack has armed the slot and has not yet released
\* it: it waits for _thread_data_ready, reads the context or is in the recorder
Armed == tpc \in {"w_wait", "w_timeout", "w_load", "w_record", "w_in_record", "w_release"}

\* C4: _thread_data_ready = true implies that _thread_data is non-null and
\* points to the frame of a handler invocation that has not returned.  The
\* claim makes this an invariant of every state; it is checked here in the
\* states it is needed for, from the end of the arm phase to the release.
C4_ReadyImpliesLive == (Armed /\ thread_data_ready) => Live(thread_data)

\* C5: a handler invocation that finds _thread_id different from its own tid,
\* or that fails the compare-and-swap because _thread_data_settable is false,
\* returns at once and leaves _thread_data, _thread_data_ready, _stack_walked
\* and _thread_id as they were.
C5_EarlyExitWritesNothing ==
    [][\A t \in Targets :
          (/\ \/ hpc[t] = "h_tid" /\ thread_id # t
              \/ hpc[t] = "h_cas" /\ ~thread_data_settable
           /\ hpc'[t] # hpc[t])
             => (/\ hpc'[t] = "idle"
                 /\ UNCHANGED <<thread_data, thread_data_ready, stack_walked,
                                thread_id, thread_data_settable>>)]_vars

\* C5 witness: one invocation stands at the tid check with another thread
\* targeted, and one stands at the compare-and-swap with the gate closed
C5_Witness ==
    \E t, u \in Targets :
        /\ hpc[t] = "h_tid" /\ thread_id # t /\ thread_id \in Targets
        /\ hpc[u] = "h_cas" /\ ~thread_data_settable

\* C6: every handler invocation that entered the spin on _stack_walked
\* eventually returns.
C6_SpinEnds == \A t \in Targets : (hpc[t] = "h_spin") ~> (hpc[t] = "idle")

\* C7: a handler invocation started by the signal of a handshake that timed
\* out, and that had not won the compare-and-swap when walkStack gave up,
\* returns early whenever it runs afterwards: its only steps are the tid check
\* and a return, it never wins the compare-and-swap (and so never writes
\* _thread_data or _thread_data_ready).
C7_StaleHandlerReturnsEarly ==
    [][\A t \in Targets :
          (/\ origin[t] = "abandoned"
           /\ hpc[t] \in {"h_tid", "h_cas"}
           /\ hpc'[t] # hpc[t])
             => hpc'[t] \in {"h_cas", "idle"}]_vars

\* C8: at most one handler invocation in the process is past the
\* compare-and-swap and has not returned.
C8_OneInFlight == Cardinality(InFlight) <= 1

\* C9: walkStack returns true exactly when it called the recorder once and
\* wrote _stack_walked = true; when it returns false it did not call the
\* recorder and _thread_id is -1; timerLoop increments count exactly for a
\* true return and goes on with the inner loop.
C9_WalkResult ==
    /\ [](tpc = "w_ret" =>
            /\ result => (rec_calls = 1 /\ stack_walked)
            /\ ~result => (rec_calls = 0 /\ thread_id = NoThread))
    /\ [][(tpc = "w_ret" /\ tpc' # "w_ret")
             => (/\ tpc' = "next"
                 /\ count' = IF result THEN count + 1 ELSE count)]_vars

\* C9 witness: a walkStack call returns false in an iteration that already
\* has one successful walk, with its signal still pending (a timeout)
C9_Witness ==
    /\ tpc = "w_ret"
    /\ ~result
    /\ count = 1
    /\ pending[target] = "abandoned"

\* C10: once stop has written _running = false the timer thread ends and the
\* join returns, in every session: also when stop follows a second start.
C10_StopJoins == (api = "joining") ~> (api = "stopped" /\ tpc = "off")

\* C10 witness: stop has been called in a session that was started after an
\* earlier one (whose walks have left _thread_id different from its initial
\* value) and whose timer thread has not yet run
C10_Witness == api = "joining" /\ tpc = "init" /\ thread_id # 0

\* C16: whenever a handler invocation wins the compare-and-swap on
\* _thread_data_settable, _thread_data_ready and _stack_walked are both false
\* at that moment: walkStack opens the gate only after it has cleared them.
C16_GateOpensAfterClear ==
    [][\A t \in Targets :
          (hpc[t] = "h_cas" /\ hpc'[t] = "h_data")
             => (~thread_data_ready /\ ~stack_walked)]_vars

\* C17: once stop has returned, no thread is inside the handler past the
\* compare-and-swap.
C17_NoHandlerAfterStop == (api = "stopped" /\ tpc = "off") => InFlight = {}

\* C20: the context walkStack(tid) hands to the recorder is the frame of a
\* handler invocation on thread tid that was started by the signal of this
\* same call.  (A null context belongs to C1 and is left aside here.)
C20_ContextOfThisCall ==
    (tpc = "w_in_record" /\ data # NULL)
        => (data = <<target, "cur">> /\ origin[target] = "fresh")

\* C11: in one iteration of the timer loop at most THREADS_PER_TICK threads
\* are sampled: the recorder is called at most THREADS_PER_TICK times between
\* two end-of-iteration sleeps, and once count has reached THREADS_PER_TICK
\* or the list is exhausted the next step of the inner loop ends it without
\* another walk.
C11_AtMostEightPerTick ==
    /\ [](rec_tick <= THREADS_PER_TICK /\ count <= THREADS_PER_TICK)
    /\ [][(/\ tpc = "next"
           /\ count >= THREADS_PER_TICK \/ cursor > Len(LongThreadList)
           /\ <<tpc, cursor>>' # <<tpc, cursor>>)
             => (tpc' = "head" /\ UNCHANGED <<target, attempts>>)]_vars

\* C11 witness: eight walks of this iteration succeeded and called the
\* recorder, and the list still has threads that were not visited
C11_Witness ==
    /\ tpc = "next"
    /\ count = THREADS_PER_TICK
    /\ rec_tick = THREADS_PER_TICK
    /\ cursor <= Len(LongThreadList)

\* the threads the claim calls eligible: not the timer thread, accepted by the
\* filter when it is enabled, and running when idle threads are not sampled
Eligible ==
    {t \in LoopTids : /\ t # Self
                      /\ filter.enabled => t \in filter.accepted
                      /\ sample_idle_threads \/ t \in os_running}

\* the threads next() has returned since the list was last rewound
Visited == {LongThreadList[i] : i \in 1..(cursor - 1)}

\* the timer thread is inside the while loop of timerLoop
InLoop == tpc \in {"head", "next", "w_tid", "w_ret"}

\* C12: in one run of timerLoop the cursor moves on by one thread at a time
\* and goes back to the start only when next() has returned -1; every
\* eligible thread has had walkStack called once per completed pass over the
\* list, plus once if the current pass has reached it, and no other thread has
\* had it called; so the numbers of walkStack calls of two eligible threads
\* never differ by more than 1.
C12_FairVisitation ==
    /\ [](InLoop =>
            \A t \in LoopTids :
                attempts[t] = IF t \in Eligible
                              THEN rewinds + (IF t \in Visited THEN 1 ELSE 0)
                              ELSE 0)
    /\ [](\A t, u \in Eligible : attempts[t] - attempts[u] <= 1)
    /\ [][cursor' # cursor =>
             \/ cursor' = cursor + 1
             \/ cursor' = 1 /\ tpc = "init"
             \/ cursor' = 1 /\ tpc = "next" /\ cursor > Len(LongThreadList)]_vars

\* C12 witness: more threads are eligible than one iteration can sample, the
\* list has been rewound once, and the second pass has walked the first
\* threads again while the last one still waits for its second walk
C12_Witness ==
    /\ InLoop
    /\ Cardinality(Eligible) > THREADS_PER_TICK
    /\ rewinds = 1
    /\ attempts[1] = 2
    /\ attempts[LoopThreads] = 1

\* C13: timerLoop never calls walkStack for its own tid, and with the thread
\* filter enabled never for a tid the filter rejects: the thread of every
\* walkStack call, and so of every recorder call, is another thread that the
\* filter accepts.
C13_OnlyAcceptedThreads ==
    /\ tpc \in {"w_tid", "w_ret"} =>
          /\ target # Self
          /\ filter.enabled => target \in filter.accepted
    /\ InLoop =>
          \A t \in LoopTids :
              (t = Self \/ (filter.enabled /\ t \notin filter.accepted))
                  => attempts[t] = 0

\* C13 witness: the filter accepts the even tids only, the cursor has passed
\* a rejected thread and the timer thread itself, and the recorder has been
\* called for thread 4
C13_Witness ==
    /\ tpc = "w_ret"
    /\ result
    /\ rec_calls = 1
    /\ filter = [enabled |-> TRUE, accepted |-> Evens]
    /\ target = 4
    /\ {1, Self} \subseteq Visited

\* C14: when idle threads are not sampled, walkStack is called only for
\* threads the OS reports as running when they are selected, and every event
\* handed to the recorder has the state THREAD_UNKNOWN; when idle threads are
\* sampled, every thread that is not skipped is walked whatever its state, and
\* every event handed to the recorder has the state THREAD_RUNNING or
\* THREAD_SLEEPING.
C14_StatePolicy ==
    /\ []((tpc \in {"w_tid", "w_ret"} /\ ~sample_idle_threads)
             => target \in os_running)
    /\ []((tpc = "w_ret" /\ result) =>
             IF sample_idle_threads
             THEN event_state \in {"THREAD_RUNNING", "THREAD_SLEEPING"}
             ELSE event_state = "THREAD_UNKNOWN")
    /\ [][(/\ sample_idle_threads
           /\ tpc = "next"
           /\ cursor' = cursor + 1
           /\ LongThreadList[cursor] # Self
           /\ filter.enabled => LongThreadList[cursor] \in filter.accepted)
             => (tpc' = "w_tid" /\ target' = LongThreadList[cursor])]_vars

\* C14 witness: idle threads are sampled, and a thread the OS does not report
\* as running has been walked and recorded as sleeping
C14_Witness ==
    /\ sample_idle_threads
    /\ tpc = "w_ret"
    /\ result
    /\ target \notin os_running
    /\ event_state = "THREAD_SLEEPING"

\* the least c with c * k >= n: n / k rounded up
Ceiling(n, k) == CHOOSE c \in 0..n : c * k >= n /\ (c - 1) * k < n

\* what the claim says adjust_interval returns
ClaimedAdjust(i, n) ==
    IF n <= THREADS_PER_TICK THEN i ELSE i \div Ceiling(n, THREADS_PER_TICK)

\* C15: adjustInterval(interval, n) is interval when n <= THREADS_PER_TICK and
\* interval divided by n / THREADS_PER_TICK rounded up (the quotient rounded
\* down) when n is larger, for every interval start can set and every n up to
\* MaxThreadCount: in particular 10 ms with 64 threads gives 1.25 ms; and this
\* is the amount by which an iteration moves next_cycle_time on.
C15_AdjustInterval ==
    /\ [](\A n \in 0..MaxThreadCount :
             adjustInterval(interval, n) = ClaimedAdjust(interval, n))
    /\ [](adjustInterval(10000000, 64) = 1250000)
    /\ [][(tpc = "head" /\ tpc' = "walks" /\ sample_idle)
             => next_cycle_time' = next_cycle_time
                   + ClaimedAdjust(interval, estimated_thread_count')]_vars

\* C15 witness: an iteration has moved next_cycle_time on for an interval of
\* 10 ms and 64 threads
C15_Witness ==
    /\ tpc = "walks"
    /\ sample_idle
    /\ interval = 10000000
    /\ estimated_thread_count = 64
    /\ next_cycle_time = 1250000

\* C19: once start has run, _sample_idle_threads is true exactly when a wall
\* interval >= 0 was given or the event is named "wall"; _interval is the wall
\* interval when one was given and the interval argument otherwise, replaced
\* when it is 0 by 5 * DEFAULT_INTERVAL if idle threads are sampled and by
\* DEFAULT_INTERVAL if not; and _interval is not 0.
C19_StartResolvesSettings ==
    api \in {"started", "joining"} =>
        /\ sample_idle_threads <=> (args.wall >= 0 \/ args.event = "wall")
        /\ args.wall > 0 => interval = args.wall
        /\ (args.wall < 0 /\ args.interval # 0) => interval = args.interval
        /\ (args.wall = 0 \/ (args.wall < 0 /\ args.interval = 0)) =>
              interval = IF sample_idle_threads
                         THEN 5 * DEFAULT_INTERVAL
                         ELSE DEFAULT_INTERVAL
        /\ interval # 0

\* C19 witness: start was called with a wall interval of 0 and an event other
\* than wall, and the timer thread runs with five times the default interval
C19_Witness ==
    /\ api = "started"
    /\ tpc = "walks"
    /\ args.wall = 0
    /\ args.event # "wall"
    /\ sample_idle
    /\ interval = 5 * DEFAULT_INTERVAL

\* C18: every end-of-iteration sleep of timerLoop lasts at least MIN_INTERVAL,
\* whatever the interval, the thread count and whether idle threads are
\* sampled; when idle threads are sampled and next_cycle_time - current_time
\* is not greater than MIN_INTERVAL, the sleep lasts exactly MIN_INTERVAL and
\* next_cycle_time becomes current_time + MIN_INTERVAL.
C18_SleepAtLeastMinInterval ==
    [][(tpc = "sleep" /\ tpc' = "head") =>
          /\ slept' >= MIN_INTERVAL
          /\ (sample_idle /\ next_cycle_time - now <= MIN_INTERVAL) =>
                (slept' = MIN_INTERVAL /\ next_cycle_time' = now + MIN_INTERVAL)]_vars

====
